---- MODULE Spec2Model ----
(***************************************************************************)
(* State-machine model of the FEM.edu domain core: the DOF registry and    *)
(* displacement/load state of a Node (femedu/domain/Node.py) and the       *)
(* parts of Element (femedu/elements/Element.py) that talk to it.          *)
(*                                                                         *)
(* The model follows ONE node and the elements incident to it.  Python     *)
(* object references to numpy arrays are modelled by a small heap, so that *)
(* two attributes naming the same array (self.disp_pushed = self.disp)     *)
(* see each other's in-place writes, exactly as in the interpreter.        *)
(* Floats are modelled by integers; None is modelled by 0 for references   *)
(* and by "None" for callers.  Calls use modeshape=False throughout.       *)
(***************************************************************************)
EXTENDS Integers, Sequences, FiniteSets, TLC

\* ------------------------------------------------------------------ bounds
MaxReq == 2      \* longest DOF-code list handed to request / initialize / dofs=
MaxLen == 2      \* longest value list handed to setDisp / _updateDisp / loads
MaxVal == 1      \* largest displacement or load value
MaxLam == 2      \* largest load factor
MaxItems == 2    \* longest list inside an argument of fixDOF
MaxLocal == 2    \* longest local_nodes list handed to addTransformation

\* ------------------------------------------------------------ input domains
Codes == {"ux", "uy", "rz"}          \* DOF codes a call may name
ReqCodes == {"ux", "uy"}             \* DOF codes the callers request
Elems == {"E1", "E2"}                \* Element objects
Callers == Elems                     \* the objects that call request
NodeCounts == {3}                    \* len(nodes) of the elements constructed
InitTypes == {"TRIANGLE", "LINE"}    \* topology types handed to initialize
ElemCounts == {1, 2, 3, 4, 5, 6, 8, 9, 10, 20, 27}   \* len(nodes) where the faces are studied

RECURSIVE SeqsUpTo(_, _)
SeqsUpTo(S, n) ==
    IF n = 0 THEN {<<>>}
    ELSE LET shorter == SeqsUpTo(S, n - 1)
         IN shorter \cup {Append(s, x) : s \in {t \in shorter : Len(t) = n - 1}, x \in S}

ReqLists == SeqsUpTo(ReqCodes, MaxReq)     \* dof_list of request / initialize
DofLists == SeqsUpTo(Codes, MaxReq)        \* dofs= of the queries and of setDisp
OtherLists == {<<"uy">>, <<"ux", "uy">>}   \* dof_list of a second caller's requests
InitLists == {<<>>, <<"ux">>, <<"ux", "uy">>}   \* dofs of the element's initialize
MapLists == {<<>>, <<"ux">>, <<"uy">>, <<"uy", "ux">>}   \* dofs of two elements' initialize
Vals == 0..MaxVal
ValLists == SeqsUpTo(Vals, MaxLen)
Lams == 0..MaxLam

Transformations == {1, 2}            \* Transformation objects, by identity
LocalIds == {-1, 0, 2, 3}         \* entries of a local_nodes list
LocalLists == SeqsUpTo(LocalIds, MaxLocal)

\* an argument of fixDOF: a string, a list/tuple of arguments, or anything else
Str(c) == [kind |-> "str", v |-> c, items |-> <<>>]
Lst(items) == [kind |-> "list", v |-> "", items |-> items]
NotACode == [kind |-> "other", v |-> "", items |-> <<>>]       \* e.g. the number 5

FixLeaves == {Str(c) : c \in ReqCodes} \cup {NotACode}
FixInner == {Str("ux"), NotACode}
FixFlat == FixLeaves \cup {Lst(l) : l \in SeqsUpTo(FixInner, MaxItems)}
FixArgs == FixLeaves \cup {Lst(l) : l \in SeqsUpTo(FixFlat, MaxItems)}

\* ------------------------------------------------------------------- state
VARIABLES
    \* Node (Node.__init__, lines 25-41)
    dofs,          \* self.dofs: DOF code -> local index
    ndofs,         \* self.ndofs
    elements,      \* self.elements: list of callers
    dof_maps,      \* self.dof_maps: caller -> list of indices
    disp,          \* self.disp: reference into heap, 0 = None
    disp_pushed,   \* self.disp_pushed: reference into heap, 0 = None
    heap,          \* the numpy arrays the two references may name
    loads,         \* self.loads: DOF code -> load
    _hasLoad,      \* self._hasLoad
    loadfactor,    \* self.loadfactor
    \* Element objects (Element.__init__); one record per element
    element,
    \* the last call: which method ran and which exception it raised
    call, err,
    \* history kept for the properties
    requested,     \* DOF codes ever handed to request at this node
    lastReq,       \* caller -> its latest request: the codes and the tuple returned
    again,         \* the caller whose request just repeated its previous one, or "None"
    _fixity,       \* self._fixity: list of fixed DOF codes
    fixDepth,      \* how deeply the argument of the last fixDOF call nested lists
    recorder,      \* self.recorder of the node and of element E1, with the Recorder's state
    disp_n,        \* self.disp_n: previously converged displacement vector, 0 = None
    conv,          \* displacement values held at the latest on_converged()
    clients,       \* Transformation -> the elements registered as its clients
    npush,         \* number of pushU() calls so far, capped at 2
    snap           \* displacement values held at the latest pushU(), until a popU()

regVars  == <<dofs, ndofs, elements, dof_maps>>
dispVars == <<disp, disp_pushed, heap>>
loadVars == <<loads, _hasLoad, loadfactor>>
callVars == <<call, err>>
histReg  == <<requested, lastReq, again>>
histDisp == <<npush, snap>>
fixVars == <<_fixity, fixDepth>>
convVars == <<disp_n, conv>>
extVars == <<recorder, convVars, clients>>
miscVars == <<fixVars, extVars>>
vars == <<regVars, dispVars, loadVars, element, callVars, histReg, histDisp, miscVars>>

None == 0                      \* a reference that names no array
NoCaller == "None"             \* caller=None
EmptyMap == [c \in {} |-> 0]   \* {}

Zeros(n) == [i \in 1..n |-> 0]                    \* np.zeros(n)
Range(s) == {s[i] : i \in DOMAIN s}
Put(m, k, v) == [c \in DOMAIN m \cup {k} |-> IF c = k THEN v ELSE m[c]]   \* m[k] = v

\* ---------------------------------------------------------- Node.request
\* lines 90-92: a code not yet in self.dofs gets the next index
AssignIndexNoInc(d, n, dof) ==
    IF dof \in DOMAIN d THEN [dofs |-> d, ndofs |-> n]
    ELSE [dofs |-> Put(d, dof, n), ndofs |-> n]

AssignIndex(d, n, dof) ==
    IF dof \in DOMAIN d THEN [dofs |-> d, ndofs |-> n]
    ELSE [dofs |-> Put(d, dof, n), ndofs |-> n + 1]

\* lines 88-93: the loop over dof_list, building dof_idx
RECURSIVE RequestLoop(_, _, _, _)
RequestLoop(dof_list, d, n, dof_idx) ==
    IF dof_list = <<>> THEN [dofs |-> d, ndofs |-> n, dof_idx |-> dof_idx]
    ELSE LET dof == Head(dof_list)
             a == AssignIndex(d, n, dof)
         IN RequestLoop(Tail(dof_list), a.dofs, a.ndofs, Append(dof_idx, a.dofs[dof]))

\* lines 95-96: the caller is appended unless it is in the list already
RegisterCallerAlways(els, caller) == Append(els, caller)

RegisterCaller(els, caller) ==
    IF caller \in Range(els) THEN els ELSE Append(els, caller)

\* Node.request(dof_list, caller) run in the current state: the node's fields
\* after the call and the tuple returned
RequestOp(dof_list, caller) ==
    LET r == RequestLoop(dof_list, dofs, ndofs, <<>>)
    IN [dofs |-> r.dofs, ndofs |-> r.ndofs,
        elements |-> RegisterCaller(elements, caller),
        dof_maps |-> Put(dof_maps, caller, r.dof_idx),
        ret |-> r.dof_idx]

NodeRequest(dof_list, caller) ==
    LET r == RequestOp(dof_list, caller)
    IN /\ dofs' = r.dofs
       /\ ndofs' = r.ndofs
       /\ elements' = r.elements
       /\ dof_maps' = r.dof_maps
       /\ requested' = requested \cup Range(dof_list)
       /\ lastReq' = Put(lastReq, caller, [codes |-> dof_list, ret |-> r.ret])
       /\ again' = IF caller \in DOMAIN lastReq /\ lastReq[caller].codes = dof_list
                   THEN caller ELSE NoCaller

Request(dof_list, caller) ==
    /\ NodeRequest(dof_list, caller)
    /\ call' = "request"
    /\ err' = "none"
    /\ UNCHANGED <<dispVars, loadVars, element, histDisp, miscVars>>

\* ------------------------------------------------------ Node.getIdx4DOFs
\* lines 313-319: the loop; raises TypeError at the first unknown code
RECURSIVE Idx4DOFsLoop(_, _)
Idx4DOFsLoop(codes, idx) ==
    IF codes = <<>> THEN [ret |-> idx, err |-> "none"]
    ELSE IF Head(codes) \in DOMAIN dofs
         THEN Idx4DOFsLoop(Tail(codes), Append(idx, dofs[Head(codes)]))
         ELSE [ret |-> <<>>, err |-> "TypeError"]

\* line 321 converts with dtype=np.int, a name numpy >= 1.24 no longer has: once
\* the loop is through, the call returns the indices or raises AttributeError,
\* depending on the numpy installed
GetIdx4DOFsOp(codes) ==
    LET r == Idx4DOFsLoop(codes, <<>>)
    IN IF r.err = "none" THEN {r, [ret |-> <<>>, err |-> "AttributeError"]} ELSE {r}

GetIdx4DOFs(codes) ==
    /\ call' = "getIdx4DOFs"
    /\ \E r \in GetIdx4DOFsOp(codes) : err' = r.err
    /\ again' = NoCaller
    /\ UNCHANGED <<regVars, dispVars, loadVars, element, requested, lastReq, histDisp, miscVars>>

\* lines 244-246 and 309-310: the exception for a caller that is not a key of
\* self.dof_maps
NotRegisteredIgnored == "none"
NotRegistered == "TypeError"

\* Node.getIdx4Element(elem): the list remembered for elem, converted with
\* dtype=np.int as in getIdx4DOFs, or TypeError for an element not in dof_maps
GetIdx4ElementOp(elem) ==
    IF elem \in DOMAIN dof_maps
    THEN {[ret |-> dof_maps[elem], err |-> "none"], [ret |-> <<>>, err |-> "AttributeError"]}
    ELSE {[ret |-> <<>>, err |-> NotRegistered]}

GetIdx4Element(elem) ==
    /\ call' = "getIdx4Element"
    /\ \E r \in GetIdx4ElementOp(elem) : err' = r.err
    /\ again' = NoCaller
    /\ UNCHANGED <<regVars, dispVars, loadVars, element, requested, lastReq, histDisp, miscVars>>

\* ------------------------------------------------- displacement arrays
Min(a, b) == IF a < b THEN a ELSE b

\* arrays no attribute names any more are dropped
Collect(h, d, p) == [i \in DOMAIN h |-> IF i = d \/ i = p THEN h[i] ELSE <<>>]

\* self.disp = <a new array holding val>
NewDisp(val) ==
    LET r == IF disp_pushed = 1 THEN 2 ELSE 1
    IN [disp |-> r, heap |-> Collect([heap EXCEPT ![r] = val], r, disp_pushed)]

Raise(d, h, e) == [disp |-> d, heap |-> h, ret |-> <<>>, err |-> e]
Return(d, h, v) == [disp |-> d, heap |-> h, ret |-> v, err |-> "none"]

\* ------------------------------------------------------------ Node.getDisp
\* lines 255-260: one value per code, 0.0 for a code not in self.dofs
RECURSIVE GetDispLoop(_, _, _)
GetDispLoop(codes, U, ans) ==
    IF codes = <<>> THEN [ret |-> ans, err |-> "none"]
    ELSE LET dof == Head(codes)
         IN IF dof \in DOMAIN dofs
            THEN IF dofs[dof] >= Len(U)
                 THEN [ret |-> <<>>, err |-> "IndexError"]
                 ELSE GetDispLoop(Tail(codes), U, Append(ans, U[dofs[dof] + 1]))
            ELSE GetDispLoop(Tail(codes), U, Append(ans, 0))

\* Node.getDisp(caller, dofs) run in the current state
GetDispOp(caller, codes) ==
    LET a == IF disp = None THEN NewDisp(Zeros(ndofs))        \* lines 236-238
             ELSE [disp |-> disp, heap |-> heap]
        U == a.heap[a.disp]
    IN IF caller # NoCaller
       THEN IF caller \notin DOMAIN dof_maps
            THEN Raise(a.disp, a.heap, NotRegistered)
            ELSE LET idx == dof_maps[caller]
                 IN IF \E k \in DOMAIN idx : idx[k] >= Len(U)
                    THEN Raise(a.disp, a.heap, "IndexError")
                    ELSE Return(a.disp, a.heap, [k \in DOMAIN idx |-> U[idx[k] + 1]])
       ELSE IF codes # <<>>
            THEN LET r == GetDispLoop(codes, U, <<>>)
                 IN [disp |-> a.disp, heap |-> a.heap, ret |-> r.ret, err |-> r.err]
            ELSE Return(a.disp, a.heap, U)

GetDisp(caller, codes) ==
    LET r == GetDispOp(caller, codes)
    IN /\ disp' = r.disp
       /\ heap' = r.heap
       /\ call' = "getDisp"
       /\ err' = r.err
       /\ again' = NoCaller
       /\ UNCHANGED <<disp_pushed, regVars, loadVars, element, requested, lastReq, histDisp, miscVars>>

\* ------------------------------------------------------------ Node.setDisp
\* lines 172-180: zip(U, dof_list); the k-th value is written in place at the
\* index of the k-th code; an unknown code raises TypeError
RECURSIVE SetDispLoop(_, _, _, _)
SetDispLoop(U, dof_list, k, h) ==
    IF k > Min(Len(U), Len(dof_list)) THEN Return(disp, h, <<>>)
    ELSE LET dof == dof_list[k]
         IN IF dof \in DOMAIN dofs
            THEN IF disp = None THEN Raise(disp, h, "TypeError")
                 ELSE IF dofs[dof] >= Len(h[disp]) THEN Raise(disp, h, "IndexError")
                 ELSE SetDispLoop(U, dof_list, k + 1,
                                  [h EXCEPT ![disp][dofs[dof] + 1] = U[k]])
            ELSE Raise(disp, h, "TypeError")

\* Node.setDisp(U, dof_list) run in the current state, U a list or tuple
SetDispOp(U, dof_list) ==
    IF dof_list # <<>>
    THEN SetDispLoop(U, dof_list, 1, heap)
    ELSE LET n == NewDisp(U)                                   \* lines 169, 185
         IN Return(n.disp, n.heap, <<>>)

SetDisp(U, dof_list) ==
    LET r == SetDispOp(U, dof_list)
    IN /\ disp' = r.disp
       /\ heap' = r.heap
       /\ call' = "setDisp"
       /\ err' = r.err
       /\ again' = NoCaller
       /\ UNCHANGED <<disp_pushed, regVars, loadVars, element, requested, lastReq, histDisp, miscVars>>

\* --------------------------------------------------------- Node._updateDisp
\* self.disp += dU: in place; numpy broadcasts a one-entry dU and rejects any
\* other length mismatch; None += dU is a TypeError
UpdateDispOp(dU) ==
    IF disp = None THEN Raise(disp, heap, "TypeError")
    ELSE LET U == heap[disp]
         IN IF Len(dU) = Len(U)
            THEN Return(disp, [heap EXCEPT ![disp] = [i \in DOMAIN U |-> U[i] + dU[i]]], <<>>)
            ELSE IF Len(dU) = 1
            THEN Return(disp, [heap EXCEPT ![disp] = [i \in DOMAIN U |-> U[i] + dU[1]]], <<>>)
            ELSE Raise(disp, heap, "ValueError")

UpdateDisp(dU) ==
    LET r == UpdateDispOp(dU)
    IN /\ \A i \in 1..2 : \A k \in DOMAIN r.heap[i] : r.heap[i][k] <= MaxVal
       /\ disp' = r.disp
       /\ heap' = r.heap
       /\ call' = "_updateDisp"
       /\ err' = r.err
       /\ again' = NoCaller
       /\ UNCHANGED <<disp_pushed, regVars, loadVars, element, requested, lastReq, histDisp, miscVars>>

\* ---------------------------------------------------- Node.pushU / Node.popU
\* self.disp_pushed = self.disp: the attribute names the same array
PushUOp == [disp_pushed |-> disp, heap |-> Collect(heap, disp, disp)]

PushU ==
    /\ disp_pushed' = PushUOp.disp_pushed
    /\ heap' = PushUOp.heap
    /\ npush' = Min(npush + 1, 2)
    /\ snap' = IF disp = None THEN [set |-> FALSE, val |-> <<>>]
               ELSE [set |-> TRUE, val |-> heap[disp]]
    /\ call' = "pushU"
    /\ err' = "none"
    /\ again' = NoCaller
    /\ UNCHANGED <<disp, regVars, loadVars, element, requested, lastReq, miscVars>>

PopUNoCheck == Return(disp_pushed, Collect(heap, disp_pushed, disp_pushed), <<>>)

PopUOp ==
    IF disp_pushed # None
    THEN Return(disp_pushed, Collect(heap, disp_pushed, disp_pushed), <<>>)
    ELSE Raise(disp, heap, "TypeError")

PopU ==
    /\ disp' = PopUOp.disp
    /\ heap' = PopUOp.heap
    /\ call' = "popU"
    /\ err' = PopUOp.err
    /\ snap' = [snap EXCEPT !.set = FALSE]
    /\ again' = NoCaller
    /\ UNCHANGED <<disp_pushed, regVars, loadVars, element, requested, lastReq, npush, miscVars>>

\* ----------------------------------------------------------- Node.resetDisp
ResetDispOp == NewDisp(Zeros(Cardinality(DOMAIN dofs)))

ResetDisp ==
    /\ disp' = ResetDispOp.disp
    /\ heap' = ResetDispOp.heap
    /\ call' = "resetDisp"
    /\ err' = "none"
    /\ again' = NoCaller
    /\ UNCHANGED <<disp_pushed, regVars, loadVars, element, requested, lastReq, histDisp, miscVars>>

\* ------------------------------------- Node.addLoad / setLoad / resetLoad
\* lines 340-344: zip(loads, dofs); a value is added to the load stored for its
\* code, or stored if the code has none
\* lines 341-344: one (load, dof) pair of addLoad
AccumulateOverwrites(m, dof, load) == Put(m, dof, load)

Accumulate(m, dof, load) ==
    IF dof \in DOMAIN m THEN Put(m, dof, m[dof] + load) ELSE Put(m, dof, load)

RECURSIVE AddLoadLoop(_, _, _, _)
AddLoadLoop(lds, codes, k, m) ==
    IF k > Min(Len(lds), Len(codes)) THEN m
    ELSE AddLoadLoop(lds, codes, k + 1, Accumulate(m, codes[k], lds[k]))

\* lines 354-355: zip(loads, dofs); the value replaces the load stored for its code
RECURSIVE SetLoadLoop(_, _, _, _)
SetLoadLoop(lds, codes, k, m) ==
    IF k > Min(Len(lds), Len(codes)) THEN m
    ELSE SetLoadLoop(lds, codes, k + 1, Put(m, codes[k], lds[k]))

\* Node.addLoad / Node.setLoad run in the current state: the fields they leave
AddLoadOp(lds, codes) == [loads |-> AddLoadLoop(lds, codes, 1, loads), _hasLoad |-> TRUE]
SetLoadOp(lds, codes) == [loads |-> SetLoadLoop(lds, codes, 1, loads), _hasLoad |-> TRUE]

AddLoad(lds, codes) ==
    LET r == AddLoadOp(lds, codes)
    IN /\ \A c \in DOMAIN r.loads : r.loads[c] <= MaxVal
       /\ loads' = r.loads
       /\ _hasLoad' = r._hasLoad
       /\ call' = "addLoad"
       /\ err' = "none"
       /\ again' = NoCaller
       /\ UNCHANGED <<loadfactor, regVars, dispVars, element, requested, lastReq, histDisp, miscVars>>

SetLoad(lds, codes) ==
    /\ loads' = SetLoadOp(lds, codes).loads
    /\ _hasLoad' = SetLoadOp(lds, codes)._hasLoad
    /\ call' = "setLoad"
    /\ err' = "none"
    /\ again' = NoCaller
    /\ UNCHANGED <<loadfactor, regVars, dispVars, element, requested, lastReq, histDisp, miscVars>>

ResetLoad ==
    /\ loads' = EmptyMap
    /\ _hasLoad' = FALSE
    /\ call' = "resetLoad"
    /\ err' = "none"
    /\ again' = NoCaller
    /\ UNCHANGED <<loadfactor, regVars, dispVars, element, requested, lastReq, histDisp, miscVars>>

\* ------------------------------------------- Node.getLoad / setLoadFactor
\* lines 372-375: the entry written for one stored load
LoadEntryUnscaled(load, lam, apply_load_factor) == load

LoadEntry(load, lam, apply_load_factor) ==
    IF apply_load_factor THEN load * lam ELSE load

\* lines 370-375: the loop over self.loads; loads of codes not in self.dofs are skipped
RECURSIVE GetLoadLoop(_, _, _)
GetLoadLoop(keys, force, apply_load_factor) ==
    IF keys = {} THEN force
    ELSE LET dof == CHOOSE c \in keys : TRUE
         IN GetLoadLoop(keys \ {dof},
                        IF dof \in DOMAIN dofs
                        THEN [force EXCEPT ![dofs[dof] + 1] =
                                  LoadEntry(loads[dof], loadfactor, apply_load_factor)]
                        ELSE force,
                        apply_load_factor)

\* Node.getLoad(apply_load_factor=...) run in the current state
GetLoadOpAllZero(apply_load_factor) == Zeros(ndofs)
GetLoadOp(apply_load_factor) == GetLoadLoop(DOMAIN loads, Zeros(ndofs), apply_load_factor)

GetLoad(apply_load_factor) ==
    /\ call' = "getLoad"
    /\ err' = "none"
    /\ again' = NoCaller
    /\ UNCHANGED <<regVars, dispVars, loadVars, element, requested, lastReq, histDisp, miscVars>>

SetLoadFactor(lam) ==
    /\ loadfactor' = lam
    /\ call' = "setLoadFactor"
    /\ err' = "none"
    /\ again' = NoCaller
    /\ UNCHANGED <<loads, _hasLoad, regVars, dispVars, element, requested, lastReq, histDisp, miscVars>>

\* --------------------------------------- Node.fixDOF / areFixed / getFixedDofs
\* line 113: a code already in self._fixity is not appended again
AppendAlways(fix, c) == Append(fix, c)

AppendOnce(fix, c) == IF c \in Range(fix) THEN fix ELSE Append(fix, c)

\* line 119: raise TypeError
RejectSilently(fix) == [_fixity |-> fix, err |-> "none"]

Reject(fix) == [_fixity |-> fix, err |-> "TypeError"]

\* lines 111-119: the loop of fixDOF(*dofs) over its arguments; a list or tuple
\* is handled by one recursive fixDOF(item) call per item, and the first
\* argument that is neither raises TypeError, the codes appended until then stay
RECURSIVE FixLoop(_, _)
FixLoop(args, fix) ==
    IF args = <<>> THEN [_fixity |-> fix, err |-> "none"]
    ELSE LET dof == Head(args)
         IN IF dof.kind = "str" THEN FixLoop(Tail(args), AppendOnce(fix, dof.v))
            ELSE IF dof.kind = "list"
                 THEN LET r == FixLoop(dof.items, fix)
                      IN IF r.err = "none" THEN FixLoop(Tail(args), r._fixity) ELSE r
                 ELSE Reject(fix)

\* Node.fixDOF(*dofs) run in the current state
FixDOFOp(args) == FixLoop(args, _fixity)

Max(a, b) == IF a > b THEN a ELSE b

RECURSIVE Depth(_)
RECURSIVE DepthOfItems(_)
DepthOfItems(items) ==
    IF items = <<>> THEN 0 ELSE Max(Depth(Head(items)), DepthOfItems(Tail(items)))

Depth(a) == IF a.kind = "list" THEN 1 + DepthOfItems(a.items) ELSE 0

FixDOF(args) ==
    /\ _fixity' = FixDOFOp(args)._fixity
    /\ fixDepth' = DepthOfItems(args)
    /\ UNCHANGED extVars
    /\ call' = "fixDOF"
    /\ err' = FixDOFOp(args).err
    /\ again' = NoCaller
    /\ UNCHANGED <<regVars, dispVars, loadVars, element, requested, lastReq, histDisp>>

\* lines 143-147: one index per entry of self._fixity, taken from enumerate
AreFixedOp == [i \in 1..Len(_fixity) |-> i - 1]

AreFixed ==
    /\ call' = "areFixed"
    /\ err' = "none"
    /\ again' = NoCaller
    /\ UNCHANGED <<regVars, dispVars, loadVars, element, requested, lastReq, histDisp, miscVars>>

\* line 153: a copy of the list
GetFixedDofsOp == _fixity

GetFixedDofs ==
    /\ call' = "getFixedDofs"
    /\ err' = "none"
    /\ again' = NoCaller
    /\ UNCHANGED <<regVars, dispVars, loadVars, element, requested, lastReq, histDisp, miscVars>>

\* ------------------------------------------------ Node.on_converged / revert
\* both bodies are `pass`: no field of the node is assigned
OnConvergedOp == [disp |-> disp, disp_n |-> disp_n, heap |-> heap]
RevertOp == [disp |-> disp, disp_n |-> disp_n, heap |-> heap]

OnConverged ==
    /\ disp' = OnConvergedOp.disp
    /\ disp_n' = OnConvergedOp.disp_n
    /\ heap' = OnConvergedOp.heap
    /\ conv' = IF disp = None THEN [set |-> FALSE, val |-> <<>>]
               ELSE [set |-> TRUE, val |-> heap[disp]]
    /\ call' = "on_converged"
    /\ err' = "none"
    /\ again' = NoCaller
    /\ UNCHANGED <<disp_pushed, regVars, loadVars, element, requested, lastReq, histDisp, fixVars, recorder, clients>>

Revert ==
    /\ disp' = RevertOp.disp
    /\ disp_n' = RevertOp.disp_n
    /\ heap' = RevertOp.heap
    /\ call' = "revert"
    /\ err' = "none"
    /\ again' = NoCaller
    /\ UNCHANGED <<disp_pushed, regVars, loadVars, element, requested, lastReq, histDisp, fixVars, recorder, conv, clients>>

\* ------------------------------------------- setRecorder / recordThisStep
\* the objects that hold a recorder: the node and the element E1
RecOwners == {"Node", "E1"}
RecVarLists == {<<>>, <<"ux">>, <<"ux", "uy">>}     \* Recorder.getVariables()

\* self.recorder = None
NoRecorder == [attached |-> FALSE, active |-> FALSE, vars |-> <<>>, len |-> EmptyMap]

\* a Recorder declaring the names vs, with an empty time history
NewRecorder(vs, on) ==
    [attached |-> TRUE, active |-> on, vars |-> vs, len |-> [v \in Range(vs) |-> 0]]

\* Recorder.addData(data): one more entry in the history of each name in data
AddData(rec, keys) ==
    [rec EXCEPT !.len = [v \in DOMAIN rec.len |-> IF v \in keys THEN rec.len[v] + 1 ELSE rec.len[v]]]

\* Recorder.enable() / Recorder.disable()
Toggle(rec, on) == [rec EXCEPT !.active = on]

\* Node.recordThisStep(load_level): the dict is built from self.load_level, an
\* attribute no method of Node assigns
NodeRecordThisStepOp(rec) ==
    IF rec.attached /\ rec.active
    THEN [rec |-> rec, err |-> "AttributeError"]
    ELSE [rec |-> rec, err |-> "none"]

\* Element.getValue(name): an empty list
GetValueOp(name) == <<>>

\* Element.recordThisStep(load_level): self.getValue(var)[0] for the first name
ElementRecordThisStepOp(rec) ==
    IF rec.attached /\ rec.active
    THEN IF \E k \in 1..Len(rec.vars) : GetValueOp(rec.vars[k]) = <<>>
         THEN [rec |-> rec, err |-> "IndexError"]
         ELSE [rec |-> AddData(rec, Range(rec.vars)), err |-> "none"]
    ELSE [rec |-> rec, err |-> "none"]

RecordThisStepOp(o) ==
    IF o = "Node" THEN NodeRecordThisStepOp(recorder[o]) ELSE ElementRecordThisStepOp(recorder[o])

\* the owner o exists: the node always, the element once constructed
OwnerExists(o) == IF o = "Node" THEN TRUE ELSE element[o].exists

\* a call on the recorder side: leaves the node and the elements alone
RecCall(o, name, rec, e) ==
    /\ OwnerExists(o)
    /\ recorder' = [recorder EXCEPT ![o] = rec]
    /\ call' = name
    /\ err' = e
    /\ again' = NoCaller
    /\ UNCHANGED <<regVars, dispVars, loadVars, element, requested, lastReq, histDisp, fixVars, convVars, clients>>

\* setRecorder(recorder) with a Recorder, and with anything else
SetRecorder(o, vs, on) == RecCall(o, "setRecorder", NewRecorder(vs, on), "none")
SetRecorderNone(o) == RecCall(o, "setRecorder", NoRecorder, "none")

\* Element.startRecorder / pauseRecorder / stopRecorder, or enable() / disable()
\* called on the recorder itself
SwitchRecorder(o, on) ==
    /\ recorder[o].attached
    /\ RecCall(o, IF on THEN "startRecorder" ELSE "stopRecorder", Toggle(recorder[o], on), "none")

RecordThisStep(o) ==
    RecCall(o, "recordThisStep", RecordThisStepOp(o).rec, RecordThisStepOp(o).err)

\* =================================================================== Element
ElementTypes == {"UNKNOWN", "LINE", "CURVE", "TRIANGLE", "TETRAHEDRON", "QUAD", "BRICK"}

\* an Element object that has not been constructed yet
NoElement ==
    [exists |-> FALSE, nnodes |-> 0, element_type |-> "unset", _dof_list |-> <<>>,
     dof_idx |-> <<>>, faces |-> <<>>, transforms |-> <<>>, Forces |-> <<>>,
     Kt |-> <<>>, distributed_load |-> <<>>, Loads |-> <<>>, loadfactor |-> 0]

Face2D(nodes) == [dim |-> 2, nodes |-> nodes]
Face3D(nodes) == [dim |-> 3, nodes |-> nodes]
\* raise NotImplementedError(msg): no face has been appended at that point
NotImplementedSilent == [faces |-> <<>>, err |-> "none"]
NotImplemented == [faces |-> <<>>, err |-> "NotImplementedError"]
Made(fs) == [faces |-> fs, err |-> "none"]

\* Element.createFaces: the faces as tuples of local node numbers (self.nodes[k])
CreateFaces(type, nNds) ==
    CASE type = "LINE" -> NotImplemented
      [] type = "CURVE" -> NotImplemented
      [] type = "TRIANGLE" ->
            IF nNds = 3 THEN Made(<<Face2D(<<0,1>>), Face2D(<<1,2>>), Face2D(<<2,0>>)>>)
            ELSE IF nNds = 6 THEN Made(<<Face2D(<<0,3,1>>), Face2D(<<1,4,2>>), Face2D(<<2,5,0>>)>>)
            ELSE NotImplemented
      [] type = "TETRAHEDRON" ->
            IF nNds = 4 THEN Made(<<Face3D(<<0,2,1>>), Face3D(<<0,1,3>>),
                                    Face3D(<<1,2,3>>), Face3D(<<2,0,3>>)>>)
            ELSE IF nNds = 10 THEN Made(<<Face3D(<<0,2,1,6,5,4>>), Face3D(<<0,1,3,4,8,7>>),
                                          Face3D(<<1,2,3,5,9,8>>), Face3D(<<2,0,3,6,7,9>>)>>)
            ELSE NotImplemented
      [] type = "QUAD" ->
            IF nNds = 4 THEN Made(<<Face2D(<<0,1>>), Face2D(<<1,2>>),
                                    Face2D(<<2,3>>), Face2D(<<3,0>>)>>)
            ELSE IF nNds = 8 \/ nNds = 9
                 THEN Made(<<Face2D(<<0,4,1>>), Face2D(<<1,5,2>>),
                             Face2D(<<2,6,3>>), Face2D(<<3,7,0>>)>>)
            ELSE NotImplemented
      [] type = "BRICK" ->
            IF nNds = 8 THEN Made(<<Face3D(<<0,3,2,1>>), Face3D(<<0,1,5,4>>), Face3D(<<1,2,6,5>>),
                                    Face3D(<<2,3,7,6>>), Face3D(<<3,0,4,7>>), Face3D(<<4,5,6,7>>)>>)
            ELSE IF nNds = 20
                 THEN Made(<<Face3D(<<0,3,2,1,11,10,9,8>>),    Face3D(<<0,1,5,4,8,13,16,12>>),
                             Face3D(<<1,2,6,5,9,14,17,13>>),   Face3D(<<2,3,7,6,10,15,18,14>>),
                             Face3D(<<3,0,4,7,11,12,19,15>>),  Face3D(<<4,5,6,7,16,17,18,19>>)>>)
            ELSE IF nNds = 27
                 THEN Made(<<Face3D(<<0,3,2,1,11,10,9,8,20>>),    Face3D(<<0,1,5,4,8,13,16,12,21>>),
                             Face3D(<<1,2,6,5,9,14,17,13,22>>),   Face3D(<<2,3,7,6,10,15,18,14,23>>),
                             Face3D(<<3,0,4,7,11,12,19,15,24>>),  Face3D(<<4,5,6,7,16,17,18,19,25>>)>>)
            ELSE NotImplemented
      [] OTHER -> NotImplemented

\* Element.reset_matrices: zero force vectors and zero stiffness blocks
ResetMatricesOnce(el) ==
    LET nn == el.nnodes
        nd == Len(el._dof_list)
    IN IF el.Kt # <<>> THEN el
       ELSE [el EXCEPT !.Forces = [k \in 1..nn |-> Zeros(nd)],
                       !.Kt = [m \in 1..nn |-> [k \in 1..nn |-> [r \in 1..nd |-> Zeros(nd)]]]]

ResetMatrices(el) ==
    LET nn == el.nnodes
        nd == Len(el._dof_list)
    IN [el EXCEPT !.Forces = [k \in 1..nn |-> Zeros(nd)],
                  !.Kt = [m \in 1..nn |-> [k \in 1..nn |-> [r \in 1..nd |-> Zeros(nd)]]]]

\* Element._requestDofs, element side: remember the codes and the tuple the node returned
RequestDofsKeepsList(el, dof_requests) ==
    [el EXCEPT !.dof_idx = RequestOp(dof_requests, "self").ret]

RequestDofs(el, dof_requests) ==
    [el EXCEPT !._dof_list = dof_requests, !.dof_idx = RequestOp(dof_requests, "self").ret]

\* Element.__init__(nodes, material): the fields of the new object
NewElement(nn) ==
    [exists |-> TRUE, nnodes |-> nn, element_type |-> "unset", _dof_list |-> <<>>,
     dof_idx |-> <<>>, faces |-> <<>>, transforms |-> [k \in 1..nn |-> None],
     Forces |-> <<>>, Kt |-> <<>>, distributed_load |-> <<>>,
     Loads |-> [k \in 1..nn |-> <<>>], loadfactor |-> 1]

\* Element.__init__(nodes, material): registers an empty request at the node
ElementInit(e, nn) ==
    /\ ~element[e].exists
    /\ NodeRequest(<<>>, e)
    /\ element' = [element EXCEPT ![e] = NewElement(nn)]
    /\ call' = "Element"
    /\ err' = "none"
    /\ UNCHANGED <<dispVars, loadVars, histDisp, miscVars>>

\* Element.initialize: the test on the mandatory list of dofs
CheckDofsAccepts(codes) == "none"
CheckDofs(codes) == IF codes # <<>> THEN "none" ELSE "TypeError"

\* Element.createFaces starts from an empty list of faces
KeepFaces(fs) == fs
ClearFaces(fs) == <<>>

\* Element.initialize(type, dofs), element side: the element object it leaves
\* behind and the exception it raises
InitializeEl(el, type, codes) ==
    LET typed == [el EXCEPT !.element_type = type]
        asked == RequestDofs(typed, codes)
        cf == CreateFaces(type, asked.nnodes)
        faced == [asked EXCEPT !.faces = ClearFaces(asked.faces) \o cf.faces]
        loaded == [faced EXCEPT !.distributed_load = Zeros(faced.nnodes)]
    IN IF CheckDofs(codes) # "none" THEN [el |-> typed, err |-> CheckDofs(codes), asked |-> FALSE]
       ELSE IF cf.err # "none" THEN [el |-> faced, err |-> cf.err, asked |-> TRUE]
       ELSE [el |-> ResetMatrices(loaded), err |-> "none", asked |-> TRUE]

InitializeOp(e, type, codes) == InitializeEl(element[e], type, codes)

\* Element.createFaces() called on its own, on an element whose type is set
CreateFacesCall(e) ==
    /\ element[e].exists
    /\ element[e].element_type # "unset"
    /\ LET cf == CreateFaces(element[e].element_type, element[e].nnodes)
       IN /\ element' = [element EXCEPT ![e].faces = ClearFaces(element[e].faces) \o cf.faces]
          /\ err' = cf.err
    /\ call' = "createFaces"
    /\ again' = NoCaller
    /\ UNCHANGED <<regVars, dispVars, loadVars, requested, lastReq, histDisp, miscVars>>

\* Element.initialize(type, dofs)
Initialize(e, type, codes) ==
    /\ element[e].exists
    /\ call' = "initialize"
    /\ err' = InitializeOp(e, type, codes).err
    /\ element' = [element EXCEPT ![e] = InitializeOp(e, type, codes).el]
    /\ IF InitializeOp(e, type, codes).asked
       THEN NodeRequest(codes, e)
       ELSE /\ again' = NoCaller
            /\ UNCHANGED <<regVars, requested, lastReq>>
    /\ UNCHANGED <<dispVars, loadVars, histDisp, miscVars>>

\* Element.reset_matrices() called on its own
ResetMatricesCall(e) ==
    /\ element[e].exists
    /\ element' = [element EXCEPT ![e] = ResetMatrices(element[e])]
    /\ call' = "reset_matrices"
    /\ err' = "none"
    /\ again' = NoCaller
    /\ UNCHANGED <<regVars, dispVars, loadVars, requested, lastReq, histDisp, miscVars>>

\* updateState of a concrete element: writes the internal forces and the
\* tangent blocks it computes into self.Forces and self.Kt, sizes unchanged;
\* the value v stands for what it computes
Fill(el, v) ==
    [el EXCEPT !.Forces = [k \in DOMAIN el.Forces |-> [i \in DOMAIN el.Forces[k] |-> v]],
               !.Kt = [m \in DOMAIN el.Kt |-> [k \in DOMAIN el.Kt[m] |->
                          [r \in DOMAIN el.Kt[m][k] |-> [c \in DOMAIN el.Kt[m][k][r] |-> v]]]]]

UpdateStateConcrete(e, v) ==
    /\ element[e].exists
    /\ element[e].Kt # <<>>
    /\ element' = [element EXCEPT ![e] = Fill(element[e], v)]
    /\ call' = "updateState"
    /\ err' = "none"
    /\ again' = NoCaller
    /\ UNCHANGED <<regVars, dispVars, loadVars, requested, lastReq, histDisp, miscVars>>

\* --------------------------------------------------- Element.addTransformation
\* line 244: the test on a listed local node number
InRangeAlways(local_id, n) == TRUE
InRange(local_id, n) == local_id >= 0 /\ local_id < n

\* T.registerClient(self): T remembers the element; None has no such method
RegisterClient(cl, T, e) == [cl EXCEPT ![T] = cl[T] \cup {e}]

\* lines 243-246: the loop over local_nodes; with T = None the first listed
\* number in range raises AttributeError at T.registerClient
RECURSIVE AddTransformationLoop(_, _, _, _, _)
AddTransformationLoop(ids, tr, cl, T, e) ==
    IF ids = <<>> THEN [transforms |-> tr, clients |-> cl, err |-> "none"]
    ELSE IF InRange(Head(ids), Len(tr))
         THEN IF T = None
              THEN [transforms |-> tr, clients |-> cl, err |-> "AttributeError"]
              ELSE AddTransformationLoop(Tail(ids),
                       [k \in DOMAIN tr |-> IF k = Head(ids) + 1 THEN T ELSE tr[k]],
                       RegisterClient(cl, T, e), T, e)
         ELSE AddTransformationLoop(Tail(ids), tr, cl, T, e)

\* Element.addTransformation(T, local_nodes) run in the current state
AddTransformationOp(e, T, local_nodes) ==
    IF local_nodes # <<>>
    THEN AddTransformationLoop(local_nodes, element[e].transforms, clients, T, e)
    ELSE IF T = None
         THEN [transforms |-> element[e].transforms, clients |-> clients, err |-> "AttributeError"]
         ELSE [transforms |-> [k \in 1..element[e].nnodes |-> T],
               clients |-> RegisterClient(clients, T, e), err |-> "none"]

AddTransformation(e, T, local_nodes) ==
    /\ element[e].exists
    /\ element' = [element EXCEPT ![e].transforms = AddTransformationOp(e, T, local_nodes).transforms]
    /\ clients' = AddTransformationOp(e, T, local_nodes).clients
    /\ call' = "addTransformation"
    /\ err' = AddTransformationOp(e, T, local_nodes).err
    /\ again' = NoCaller
    /\ UNCHANGED <<regVars, dispVars, loadVars, requested, lastReq, histDisp, fixVars, recorder, convVars>>

\* ------------------------------------------------ the state queries of Element
\* what a call hands back: a value, or an exception and no value
Returns(v) == [ret |-> v, err |-> "none", returned |-> TRUE]
Raises(x) == [ret |-> <<>>, err |-> x, returned |-> FALSE]

\* E1 is an instance of Element itself; E2 is an instance of a concrete element
\* class, which overrides updateState and nothing else that is modelled here
OverridesUpdateState(e) == e = "E2"

\* the override of a concrete element: brings Forces and Kt up to date and returns
UpdateStateOverride == "none"

\* Element.updateState
UpdateStateBaseReturns == "none"
UpdateStateBase == "NotImplementedError"

UpdateStateOp(e) == IF OverridesUpdateState(e) THEN UpdateStateOverride ELSE UpdateStateBase

\* class Node defines none of hasTransform, v2l, m2l: looking one up on a node
\* raises AttributeError
NodeAttribute == "AttributeError"

\* Element.getStiffness: the loops over the node pairs evaluate ndI.hasTransform()
\* on the first pair
GetStiffnessOp(e) ==
    IF UpdateStateOp(e) # "none" THEN Raises(UpdateStateOp(e))
    ELSE IF element[e].nnodes = 0 THEN Returns(element[e].Kt)
    ELSE Raises(NodeAttribute)

\* Element.getForce: zip(self.nodes, self.Forces) yields a pair when both are
\* non-empty, and node.v2l is looked up for the first pair
GetForceOp(e) ==
    IF UpdateStateOp(e) # "none" THEN Raises(UpdateStateOp(e))
    ELSE IF element[e].nnodes = 0 \/ element[e].Forces = <<>> THEN Returns(<<>>)
    ELSE Raises(NodeAttribute)

\* Element.getStress
GetStressOp(e) ==
    IF UpdateStateOp(e) # "none" THEN Raises(UpdateStateOp(e))
    ELSE Returns(None)

\* Element.setSurfaceLoad
SetSurfaceLoadOp(e) == Raises("NotImplementedError")

\* Element.mapGaussPoints: warnings.warn(msg), the raise is commented out; the
\* call returns None
MapGaussPointsOp(e) == Returns(None)

\* a query of element e: records the call and the exception, changes nothing else
Query(e, name, res) ==
    /\ element[e].exists
    /\ call' = name
    /\ err' = res.err
    /\ again' = NoCaller
    /\ UNCHANGED <<regVars, dispVars, loadVars, element, requested, lastReq, histDisp, miscVars>>

GetStiffness(e) == Query(e, "getStiffness", GetStiffnessOp(e))
GetForce(e) == Query(e, "getForce", GetForceOp(e))
GetStress(e) == Query(e, "getStress", GetStressOp(e))
SetSurfaceLoad(e) == Query(e, "setSurfaceLoad", SetSurfaceLoadOp(e))
MapGaussPoints(e) == Query(e, "mapGaussPoints", MapGaussPointsOp(e))

\* ================================================================ behaviours
Init ==
    /\ dofs = EmptyMap
    /\ ndofs = 0
    /\ elements = <<>>
    /\ dof_maps = EmptyMap
    /\ disp = None
    /\ disp_pushed = None
    /\ heap = [i \in 1..2 |-> <<>>]
    /\ loads = EmptyMap
    /\ _hasLoad = FALSE
    /\ loadfactor = 1
    /\ element = [e \in Elems |-> NoElement]
    /\ call = "Node"
    /\ err = "none"
    /\ requested = {}
    /\ lastReq = EmptyMap
    /\ again = NoCaller
    /\ npush = 0
    /\ snap = [set |-> FALSE, val |-> <<>>]
    /\ _fixity = <<>>
    /\ fixDepth = 0
    /\ recorder = [o \in RecOwners |-> NoRecorder]
    /\ disp_n = None
    /\ conv = [set |-> FALSE, val |-> <<>>]
    /\ clients = [T \in Transformations |-> {}]

\* ---- the registry: requests by any caller, index queries
DoRequest == \E dl \in ReqLists, c \in Callers : Request(dl, c)
DoGetIdx4DOFs == \E dl \in DofLists : GetIdx4DOFs(dl)

Next ==
    \/ DoRequest
    \/ DoGetIdx4DOFs

Spec == Init /\ [][Next]_vars

\* ---- displacements: one element and one other caller register codes while
\* ---- the displacement vector is read and written
DoElementInit == \E nn \in NodeCounts : ElementInit("E1", nn)
DoInitialize == \E t \in InitTypes, dl \in InitLists : Initialize("E1", t, dl)
DoRequestOther == \E dl \in OtherLists : Request(dl, "E2")
DoGetDispFor == \E c \in Callers : GetDisp(c, <<>>)
DoGetDisp == \E dl \in DofLists : GetDisp(NoCaller, dl)
\* zip(U, dof_list) never reads U beyond len(dof_list): a longer U acts as its prefix
DoSetDisp == \E dl \in DofLists, U \in ValLists : (dl = <<>> \/ Len(U) <= Len(dl)) /\ SetDisp(U, dl)
DoUpdateDisp == \E dU \in ValLists : UpdateDisp(dU)

NextDisp ==
    \/ DoElementInit
    \/ DoInitialize
    \/ DoRequestOther
    \/ DoGetDispFor
    \/ DoGetDisp
    \/ DoSetDisp
    \/ DoUpdateDisp
    \/ ResetDisp

SpecDisp == Init /\ [][NextDisp]_vars

\* ---- a node on which pushU() is never called
DoSetDispWhole == \E U \in ValLists : SetDisp(U, <<>>)

NextPop ==
    \/ DoRequestOther
    \/ DoGetDisp
    \/ DoSetDispWhole
    \/ DoUpdateDisp
    \/ ResetDisp
    \/ PopU

SpecPop == Init /\ [][NextPop]_vars

\* ---- checkpoints: pushU / popU among the displacement mutations
DoGetDispAll == GetDisp(NoCaller, <<>>)
DoSetDispOf == \E dl \in ReqLists, U \in ValLists : (dl = <<>> \/ Len(U) <= Len(dl)) /\ SetDisp(U, dl)

NextPush ==
    \/ DoRequestOther
    \/ DoGetDispAll
    \/ DoSetDispOf
    \/ DoUpdateDisp
    \/ ResetDisp
    \/ PushU
    \/ PopU

SpecPush == Init /\ [][NextPush]_vars

\* ---- loads and the load factor
DoAddLoad == \E lds \in ValLists, dl \in ReqLists : Len(lds) = Len(dl) /\ AddLoad(lds, dl)
DoSetLoad == \E lds \in ValLists, dl \in ReqLists : Len(lds) = Len(dl) /\ SetLoad(lds, dl)
DoGetLoad == \E f \in BOOLEAN : GetLoad(f)
DoSetLoadFactor == \E lam \in Lams : SetLoadFactor(lam)

NextLoad ==
    \/ DoRequestOther
    \/ DoAddLoad
    \/ DoSetLoad
    \/ ResetLoad
    \/ DoGetLoad
    \/ DoSetLoadFactor

SpecLoad == Init /\ [][NextLoad]_vars

\* ---- restraints: fixDOF among the requests, and the queries on the fixed set
DoFixDOF == \E a \in FixArgs : FixDOF(<<a>>)

NextFix ==
    \/ DoRequestOther
    \/ DoFixDOF
    \/ AreFixed
    \/ GetFixedDofs

SpecFix == Init /\ [][NextFix]_vars

\* ---- faces: one element of any node count, initialized with any type
DoConstruct == \E nn \in ElemCounts : ElementInit("E1", nn)
DoInitializeAny == \E t \in ElementTypes, dl \in InitLists : Initialize("E1", t, dl)
DoCreateFaces == CreateFacesCall("E1")

NextFaces ==
    \/ DoConstruct
    \/ DoInitializeAny
    \/ DoCreateFaces

SpecFaces == Init /\ [][NextFaces]_vars

\* ---- state queries: an Element and an instance of a concrete element class
DoElementInitEach == \E e \in Elems, nn \in NodeCounts : ElementInit(e, nn)
DoInitializeEach == \E e \in Elems, t \in InitTypes, dl \in InitLists : Initialize(e, t, dl)
DoGetStiffness == \E e \in Elems : GetStiffness(e)
DoGetForce == \E e \in Elems : GetForce(e)
DoGetStress == \E e \in Elems : GetStress(e)
DoSetSurfaceLoad == \E e \in Elems : SetSurfaceLoad(e)
DoMapGaussPoints == \E e \in Elems : MapGaussPoints(e)

NextQuery ==
    \/ DoElementInitEach
    \/ DoInitializeEach
    \/ DoGetStiffness
    \/ DoGetForce
    \/ DoGetStress
    \/ DoSetSurfaceLoad
    \/ DoMapGaussPoints

SpecQuery == Init /\ [][NextQuery]_vars

\* ---- registration before query: requests and the per-caller queries
DoGetIdx4Element == \E c \in Callers : GetIdx4Element(c)

NextReg ==
    \/ DoRequest
    \/ DoGetDispFor
    \/ DoGetIdx4Element

SpecReg == Init /\ [][NextReg]_vars

\* ---- load steps: on_converged / revert among the displacement mutations
NextConv ==
    \/ DoRequestOther
    \/ DoSetDispWhole
    \/ DoUpdateDisp
    \/ OnConverged
    \/ Revert

SpecConv == Init /\ [][NextConv]_vars

\* ---- transformations attached to the nodes of the concrete element E2, and
\* ---- its stiffness queries
DoElementInitConcrete == \E nn \in NodeCounts : ElementInit("E2", nn)
DoInitializeConcrete == \E t \in InitTypes, dl \in InitLists : Initialize("E2", t, dl)
DoAddTransformation ==
    \E T \in Transformations \cup {None}, ln \in LocalLists : AddTransformation("E2", T, ln)
DoGetStiffnessConcrete == GetStiffness("E2")

NextTrans ==
    \/ DoElementInitConcrete
    \/ DoInitializeConcrete
    \/ DoAddTransformation
    \/ DoGetStiffnessConcrete

SpecTrans == Init /\ [][NextTrans]_vars

\* ---- the force and stiffness arrays of the concrete element E2
DoUpdateStateConcrete == \E v \in Vals : UpdateStateConcrete("E2", v)
DoResetMatrices == ResetMatricesCall("E2")

NextMat ==
    \/ DoElementInitConcrete
    \/ DoInitializeConcrete
    \/ DoUpdateStateConcrete
    \/ DoResetMatrices

SpecMat == Init /\ [][NextMat]_vars

\* ---- the per-element index maps: two elements registering any code lists
DoInitializeReq == \E e \in Elems, dl \in MapLists : Initialize(e, "TRIANGLE", dl)

NextMaps ==
    \/ DoElementInitEach
    \/ DoInitializeReq

SpecMaps == Init /\ [][NextMaps]_vars

\* ---- recorders on the node and on an element
DoSetRecorder == \E o \in RecOwners, vs \in RecVarLists, on \in BOOLEAN : SetRecorder(o, vs, on)
DoSetRecorderNone == \E o \in RecOwners : SetRecorderNone(o)
DoSwitchRecorder == \E o \in RecOwners, on \in BOOLEAN : SwitchRecorder(o, on)
DoRecordThisStep == \E o \in RecOwners : RecordThisStep(o)

NextRec ==
    \/ DoElementInit
    \/ DoSetRecorder
    \/ DoSetRecorderNone
    \/ DoSwitchRecorder
    \/ DoRecordThisStep

SpecRec == Init /\ [][NextRec]_vars

\* ================================================================ properties

\* ---- C1
\* C1: after any sequence of request calls by any callers, the indices of the
\* node's DOF map are exactly 0..ndofs-1, ndofs is the number of distinct codes
\* ever requested, an index once assigned never changes, and requesting a known
\* code again (by whichever caller) returns the index it already has.
IndicesExact ==
    /\ {dofs[c] : c \in DOMAIN dofs} = 0..(ndofs - 1)
    /\ DOMAIN dofs = requested
    /\ ndofs = Cardinality(requested)

IndexKept == \A c \in DOMAIN dofs : c \in DOMAIN dofs' /\ dofs'[c] = dofs[c]

SameIndexAgain ==
    \A dl \in ReqLists, c \in Callers :
        LET r == RequestOp(dl, c)
        IN /\ Len(r.ret) = Len(dl)
           /\ \A k \in 1..Len(dl) : dl[k] \in DOMAIN dofs => r.ret[k] = dofs[dl[k]]

C1_IndicesExactAndStable == [](IndicesExact /\ SameIndexAgain) /\ [][IndexKept]_vars

\* two callers hold the same index for a shared code, and two codes are numbered
C1_Witness ==
    /\ call = "request"
    /\ ndofs = 2
    /\ \E c1, c2 \in DOMAIN dof_maps :
          c1 # c2 /\ Range(dof_maps[c1]) \cap Range(dof_maps[c2]) # {}

\* ---- C2
\* C2: a request that repeats the caller's previous request (same codes, same
\* caller) returns the same tuple, leaves the DOF map, ndofs and the caller's
\* remembered index list unchanged, and the caller is in the node's element
\* list exactly once.
RepeatedRequestChangesNothing ==
    again' # NoCaller =>
        /\ lastReq'[again'].ret = lastReq[again'].ret
        /\ dofs' = dofs
        /\ ndofs' = ndofs
        /\ dof_maps'[again'] = dof_maps[again']
        /\ Cardinality({i \in DOMAIN elements' : elements'[i] = again'}) = 1

C2_RequestIdempotent == [][RepeatedRequestChangesNothing]_vars

C2_Witness ==
    /\ again # NoCaller
    /\ Len(lastReq[again].codes) = 2
    /\ Len(elements) = 2

\* ---- C3
\* C3: once an element has been constructed and initialize(type, dofs) has
\* registered its codes, then in every later state, whatever the other callers
\* requested and however the displacements were written, getDisp(caller=E)
\* returns without error one value per code of E, the k-th being the current
\* displacement of E's k-th code.
C3_GetDispOfCaller ==
    \A e \in Elems :
        (element[e].exists /\ element[e]._dof_list # <<>> /\ element[e].faces # <<>>) =>
            LET codes == element[e]._dof_list
                r == GetDispOp(e, <<>>)
            IN /\ r.err = "none"
               /\ Len(r.ret) = Len(codes)
               /\ \A k \in 1..Len(codes) : r.ret[k] = r.heap[r.disp][dofs[codes[k]] + 1]

\* ---- C4
\* C4: a popU() that follows a pushU() taken on an allocated displacement
\* vector, with only displacement mutations in between, succeeds and leaves the
\* displacement vector equal to the values held at that pushU().
PopRestores == (call' = "popU" /\ snap.set) => (err' = "none" /\ heap'[disp'] = snap.val)

C4_PopRestoresPushed == [][PopRestores]_vars

\* ---- C5
\* C5: when pushU() ran at least twice, the popU() that follows restores the
\* values held at the latest pushU(): one checkpoint, the second push replacing
\* the first.
PopRestoresLatest ==
    (call' = "popU" /\ npush = 2 /\ snap.set) => (err' = "none" /\ heap'[disp'] = snap.val)

C5_SecondPushIsTheCheckpoint == [][PopRestoresLatest]_vars

\* ---- C6
\* C6: popU() on a node on which pushU() never ran raises an error and leaves
\* the displacement vector (the array and its entries) as it was.
PopWithoutPush ==
    (call' = "popU" /\ npush = 0) => (err' = "TypeError" /\ disp' = disp /\ heap' = heap)

C6_PopWithoutPushRaises == [][PopWithoutPush]_vars

\* popU() has just raised on a node holding a non-zero displacement
C6_Witness ==
    /\ call = "popU"
    /\ err = "TypeError"
    /\ npush = 0
    /\ disp # None
    /\ \E k \in DOMAIN heap[disp] : heap[disp][k] # 0

\* ---- C7
\* C7: whenever the node holds a displacement vector, the vector has ndofs
\* entries: also after request() has registered codes following a
\* getDisp/resetDisp, and after setDisp has replaced the whole vector.
C7_DispLengthIsNdofs == disp # None => Len(heap[disp]) = ndofs

\* ---- C8
\* C8: in every state and for every non-empty code list L, getDisp(dofs=L)
\* without a caller returns without error one value per code of L, in order:
\* the current displacement of a registered code, 0 for a code not registered.
C8_GetDispOfCodesNeverRaises ==
    \A L \in DofLists \ {<<>>} :
        LET r == GetDispOp(NoCaller, L)
        IN /\ r.err = "none"
           /\ Len(r.ret) = Len(L)
           /\ \A k \in 1..Len(L) :
                 r.ret[k] = IF L[k] \in DOMAIN dofs
                            THEN r.heap[r.disp][dofs[L[k]] + 1] ELSE 0

\* ---- C9
\* C9: in every state, for every code list L naming a code that is not
\* registered at the node, setDisp(U, L) raises for every non-empty value list
\* U, and getIdx4DOFs(L) raises.
C9_UnknownCodeRaises ==
    \A L \in DofLists :
        (\E k \in 1..Len(L) : L[k] \notin DOMAIN dofs) =>
            /\ \A U \in ValLists \ {<<>>} : SetDispOp(U, L).err # "none"
            /\ \A r \in GetIdx4DOFsOp(L) : r.err # "none"

\* ---- C10
\* C10: in every state getLoad(apply_load_factor=True) holds, at the index of
\* each registered code, the load stored for the code times the current load
\* factor (all zero when the factor is 0); getLoad without apply_load_factor
\* holds the stored load itself, whatever the factor; and right after
\* setLoadFactor(lam) the scaled vector is the stored loads times lam while the
\* unscaled vector is what it was.
LoadOf(c) == IF c \in DOMAIN loads THEN loads[c] ELSE 0

ScaledByFactor ==
    /\ Len(GetLoadOp(TRUE)) = ndofs
    /\ \A c \in DOMAIN dofs : GetLoadOp(TRUE)[dofs[c] + 1] = LoadOf(c) * loadfactor
    /\ loadfactor = 0 => GetLoadOp(TRUE) = Zeros(ndofs)

UnscaledIgnoresFactor ==
    /\ Len(GetLoadOp(FALSE)) = ndofs
    /\ \A c \in DOMAIN dofs : GetLoadOp(FALSE)[dofs[c] + 1] = LoadOf(c)

FactorTakesEffect ==
    \A lam \in Lams :
        SetLoadFactor(lam) =>
            /\ \A c \in DOMAIN dofs : GetLoadOp(TRUE)'[dofs[c] + 1] = LoadOf(c) * lam
            /\ GetLoadOp(FALSE)' = GetLoadOp(FALSE)

C10_LoadFactorScales ==
    [](ScaledByFactor /\ UnscaledIgnoresFactor) /\ [][FactorTakesEffect]_vars

\* getLoad has just run with factor 2 set, a registered code loaded and a load
\* stored for a code that is not registered
C10_Witness ==
    /\ call = "getLoad"
    /\ loadfactor = 2
    /\ \E c \in DOMAIN dofs : LoadOf(c) = 1 /\ GetLoadOp(TRUE)[dofs[c] + 1] = 2
    /\ \E c \in DOMAIN loads : c \notin DOMAIN dofs

\* ---- C11
\* C11: loads are keyed by DOF code.  An addLoad(loads, dofs) step leaves, for
\* every code, the load stored before plus the values handed in for that code;
\* a setLoad(loads, dofs) step leaves for a named code the value handed in for
\* it (the last, if named twice) and for every other code what was stored; a
\* resetLoad() step leaves no load, and getLoad() all zero; and setLoad(v,
\* ['ux','uy']) on a node whose DOFs are ux, uy in that order makes getLoad()
\* equal to v.
RECURSIVE SumFor(_, _, _)
SumFor(c, lds, codes) ==
    IF codes = <<>> THEN 0
    ELSE (IF Head(codes) = c THEN Head(lds) ELSE 0) + SumFor(c, Tail(lds), Tail(codes))

LastFor(c, lds, codes) ==
    lds[CHOOSE k \in 1..Len(codes) : codes[k] = c /\ \A j \in (k + 1)..Len(codes) : codes[j] # c]

LoadPairs == {p \in ValLists \X ReqLists : Len(p[1]) = Len(p[2])}

AddAccumulates ==
    \A p \in LoadPairs :
        LET m == AddLoadOp(p[1], p[2]).loads
        IN /\ DOMAIN m = DOMAIN loads \cup Range(p[2])
           /\ \A c \in DOMAIN m : m[c] = LoadOf(c) + SumFor(c, p[1], p[2])

SetOverwrites ==
    \A p \in LoadPairs :
        LET m == SetLoadOp(p[1], p[2]).loads
        IN /\ DOMAIN m = DOMAIN loads \cup Range(p[2])
           /\ \A c \in DOMAIN m :
                 m[c] = IF c \in Range(p[2]) THEN LastFor(c, p[1], p[2]) ELSE loads[c]

SetThenGet ==
    (call' = "setLoad" /\ ndofs = 2 /\ dofs["ux"] = 0) =>
        \A v \in ValLists :
            (Len(v) = 2 /\ loads' = SetLoadOp(v, <<"ux", "uy">>).loads) => GetLoadOp(FALSE)' = v

ResetClears == call' = "resetLoad" => (DOMAIN loads' = {} /\ GetLoadOp(FALSE)' = Zeros(ndofs))

C11_LoadsKeyedByCode ==
    [](AddAccumulates /\ SetOverwrites) /\ [][SetThenGet /\ ResetClears]_vars

\* addLoad has just run on a node with two registered codes, both loaded: ux
\* carries 1 and uy carries 0
C11_Witness ==
    /\ call = "addLoad"
    /\ ndofs = 2
    /\ DOMAIN loads = {"ux", "uy"}
    /\ GetLoadOp(FALSE)[dofs["ux"] + 1] = 1
    /\ GetLoadOp(FALSE)[dofs["uy"] + 1] = 0

\* ---- C12
\* C12: in every state and for every argument built from strings and lists
\* only (a code, a flat list, lists within lists), fixDOF returns normally and
\* leaves the fixed list as it was followed by the codes of the argument not
\* yet in it, no code twice; repeating the call changes nothing; on a fresh
\* node fixDOF('ux'), fixDOF(['ux']) and fixDOF(['ux', ['ux']]) each leave
\* getFixedDofs() == ['ux'].
RECURSIVE CodesIn(_)
RECURSIVE CodesInItems(_)
CodesInItems(items) ==
    IF items = <<>> THEN {} ELSE CodesIn(Head(items)) \cup CodesInItems(Tail(items))

CodesIn(a) ==
    IF a.kind = "str" THEN {a.v} ELSE IF a.kind = "list" THEN CodesInItems(a.items) ELSE {}

RECURSIVE OnlyCodes(_)
OnlyCodes(a) ==
    \/ a.kind = "str"
    \/ a.kind = "list" /\ \A k \in 1..Len(a.items) : OnlyCodes(a.items[k])

NoDup(fix) == \A i, j \in 1..Len(fix) : i # j => fix[i] # fix[j]

FixNormalizes ==
    \A a \in FixArgs :
        OnlyCodes(a) =>
            LET r == FixDOFOp(<<a>>)
            IN /\ r.err = "none"
               /\ Range(r._fixity) = Range(_fixity) \cup CodesIn(a)
               /\ NoDup(r._fixity)
               /\ SubSeq(r._fixity, 1, Len(_fixity)) = _fixity
               /\ FixLoop(<<a>>, r._fixity) = r

FreshNodeExamples ==
    _fixity = <<>> =>
        /\ FixDOFOp(<<Str("ux")>>)._fixity = <<"ux">>
        /\ FixDOFOp(<<Lst(<<Str("ux")>>)>>)._fixity = <<"ux">>
        /\ FixDOFOp(<<Lst(<<Str("ux"), Lst(<<Str("ux")>>)>>)>>)._fixity = <<"ux">>

FixedListKept ==
    call' = "fixDOF" =>
        /\ NoDup(GetFixedDofsOp')
        /\ SubSeq(GetFixedDofsOp', 1, Len(_fixity)) = _fixity

C12_FixDOFNormalizes == [](FixNormalizes /\ FreshNodeExamples) /\ [][FixedListKept]_vars

\* fixDOF has just taken a list holding a list and left two fixed codes
C12_Witness ==
    /\ call = "fixDOF"
    /\ err = "none"
    /\ fixDepth = 2
    /\ GetFixedDofsOp = <<"uy", "ux">>

\* ---- C13
\* C13: in every state, fixDOF raises TypeError for every argument that holds,
\* at whatever depth, something that is neither a string nor a list/tuple.
C13_FixDOFRejects ==
    \A a \in FixArgs : ~OnlyCodes(a) => FixDOFOp(<<a>>).err = "TypeError"

\* fixDOF has just raised on an argument that nests two lists, after fixing a code
C13_Witness ==
    /\ call = "fixDOF"
    /\ err = "TypeError"
    /\ fixDepth = 2
    /\ _fixity # <<>>

\* ---- C14
\* C14: in every state in which each fixed code is registered at the node,
\* areFixed() returns exactly the indices request assigned to the fixed codes.
C14_AreFixedGivesDofIndices ==
    Range(_fixity) \subseteq DOMAIN dofs =>
        Range(AreFixedOp) = {dofs[c] : c \in Range(_fixity)}

\* ---- C15
\* C15: on an initialized element whose class provides updateState, and whose
\* nodes carry no transform (Node.transform stays None: nothing attaches one),
\* getStiffness() returns a value, and every block (i, j) of it equals the raw
\* block Kt[i][j].
C15_StiffnessBlocksUntransformed ==
    \A e \in Elems :
        (element[e].exists /\ OverridesUpdateState(e) /\ element[e].Kt # <<>>) =>
            /\ GetStiffnessOp(e).returned
            /\ \A i, j \in 1..element[e].nnodes :
                   GetStiffnessOp(e).ret[i][j] = element[e].Kt[i][j]

\* ---- C16
\* in every state, initialize(type, []) on an existing element raises TypeError
\* whatever the type, and leaves faces, Forces and Kt as they were
EmptyDofsRaise ==
    \A e \in Elems, t \in ElementTypes :
        element[e].exists =>
            LET r == InitializeOp(e, t, <<>>)
            IN /\ r.err = "TypeError"
               /\ r.el.faces = element[e].faces
               /\ r.el.Forces = element[e].Forces
               /\ r.el.Kt = element[e].Kt

\* an element no initialize has got past the test on dofs (its _dof_list is
\* still the empty tuple of the constructor) has no face, no force vector and
\* no stiffness block
NothingAllocated ==
    \A e \in Elems :
        (element[e].exists /\ element[e]._dof_list = <<>>) =>
            /\ element[e].faces = <<>>
            /\ element[e].Forces = <<>>
            /\ element[e].Kt = <<>>

FaceTable ==
    {<<"TRIANGLE", 3>>, <<"TRIANGLE", 6>>,
     <<"QUAD", 4>>, <<"QUAD", 8>>, <<"QUAD", 9>>,
     <<"TETRAHEDRON", 4>>, <<"TETRAHEDRON", 10>>,
     <<"BRICK", 8>>, <<"BRICK", 20>>, <<"BRICK", 27>>}

NonEmptyInitLists == InitLists \ {<<>>}

\* C17: in every state, initialize(type, dofs) with a non-empty dofs on an
\* element of n nodes returns normally when (type, n) is in the face table and
\* raises NotImplementedError for every other type or node count, UNKNOWN
\* included.
C17_InitializeSucceedsOnFaceTable ==
    \A e \in Elems, t \in ElementTypes, dl \in NonEmptyInitLists :
        element[e].exists =>
            InitializeOp(e, t, dl).err =
                IF <<t, element[e].nnodes>> \in FaceTable THEN "none" ELSE "NotImplementedError"

\* initialize(QUAD, dofs) has just succeeded on an element of 9 nodes
C17_Witness ==
    /\ call = "initialize"
    /\ err = "none"
    /\ element["E1"].element_type = "QUAD"
    /\ element["E1"].nnodes = 9
    /\ Len(element["E1"].faces) = 4

\* ---- C18
\* the six topology categories
Topologies == {"LINE", "CURVE", "TRIANGLE", "QUAD", "TETRAHEDRON", "BRICK"}

\* C18: in every state of the node, each of the six topology categories has a
\* node count such that initialize(type, ['ux']) on a newly constructed element
\* of that many nodes returns without an exception.
C18_EveryTopologyHasANodeCount ==
    \A t \in Topologies :
        \E n \in ElemCounts : InitializeEl(NewElement(n), t, <<"ux">>).err = "none"

\* ---- C19
\* initialize or createFaces has just returned normally on the element
FacesMade == call \in {"initialize", "createFaces"} /\ err = "none"

FaceCount(type) ==
    CASE type = "TRIANGLE" -> 3
      [] type = "QUAD" -> 4
      [] type = "TETRAHEDRON" -> 4
      [] type = "BRICK" -> 6
      [] OTHER -> 0

\* a 2D face lists its two corner nodes first and last
FirstCorner(face) == face.nodes[1]
LastCorner(face) == face.nodes[Len(face.nodes)]

\* the faces follow one another around the boundary and close the loop
ClosedLoop(fs) ==
    \A k \in 1..Len(fs) : LastCorner(fs[k]) = FirstCorner(fs[(k % Len(fs)) + 1])

\* C19: whenever initialize or createFaces has just returned normally, however
\* often they ran before, the faces of the element are those of its (type,
\* node count) and no more: 3 for a triangle, 4 for a quad, 4 for a
\* tetrahedron, 6 for a brick; every face names only nodes of the element; and
\* for triangles and quads the last corner of a face is the first corner of
\* the next one, the last face closing on the first.
C19_FacesFixedByTopology ==
    FacesMade =>
        LET el == element["E1"]
        IN /\ el.faces = CreateFaces(el.element_type, el.nnodes).faces
           /\ Len(el.faces) = FaceCount(el.element_type)
           /\ Len(el.faces) > 0
           /\ \A k \in 1..Len(el.faces) : Range(el.faces[k].nodes) \subseteq 0..(el.nnodes - 1)
           /\ el.element_type \in {"TRIANGLE", "QUAD"} => ClosedLoop(el.faces)

\* initialize(TRIANGLE, dofs) has just succeeded for the second time in a row
\* with the same dofs on a 6-node element
C19_Witness ==
    /\ call = "initialize"
    /\ err = "none"
    /\ again = "E1"
    /\ element["E1"].element_type = "TRIANGLE"
    /\ element["E1"].nnodes = 6
    /\ Len(element["E1"].faces) = 3

\* ---- C20
\* the call raised NotImplementedError and handed back no value
FailsNotImplemented(res) == ~res.returned /\ res.err = "NotImplementedError"

\* C20: in every state, on an existing element whose class does not override
\* updateState, getForce(), getStiffness() and getStress() each raise
\* NotImplementedError and return nothing, before and after initialize; and
\* setSurfaceLoad, which no modelled class overrides, raises it on every
\* existing element.
C20_MissingOverrideRaises ==
    \A e \in Elems :
        element[e].exists =>
            /\ ~OverridesUpdateState(e) =>
                   /\ FailsNotImplemented(GetForceOp(e))
                   /\ FailsNotImplemented(GetStiffnessOp(e))
                   /\ FailsNotImplemented(GetStressOp(e))
            /\ FailsNotImplemented(SetSurfaceLoadOp(e))

\* getForce() has just raised NotImplementedError on the initialized Element
C20_Witness ==
    /\ call = "getForce"
    /\ err = "NotImplementedError"
    /\ element["E1"].exists
    /\ element["E1"].Forces # <<>>

\* ---- C21
\* C21: in every state, mapGaussPoints(var) on an existing element, no modelled
\* class overriding it, raises NotImplementedError and returns nothing.
C21_MapGaussPointsRaises ==
    \A e \in Elems : element[e].exists => FailsNotImplemented(MapGaussPointsOp(e))

\* ---- C22
\* C22: in every state, recordThisStep(loadLevel) on the node or the element
\* raises nothing; with a recorder attached and active it adds exactly one
\* entry to the history of each name the recorder declares; with no recorder
\* or an inactive one it leaves the recorder as it was.
C22_RecordThisStepSamples ==
    \A o \in RecOwners :
        OwnerExists(o) =>
            LET rec == recorder[o]
                r == RecordThisStepOp(o)
            IN /\ r.err = "none"
               /\ IF rec.attached /\ rec.active
                  THEN \A v \in Range(rec.vars) : r.rec.len[v] = rec.len[v] + 1
                  ELSE r.rec = rec

\* ---- C23
\* revert() brings the displacement back to the values it had at the latest
\* on_converged()
RevertRestores ==
    (call' = "revert" /\ conv.set) => (err' = "none" /\ heap'[disp'] = conv.val)

\* C23: on_converged() commits the current displacement, and a revert() that
\* follows, whatever setDisp / _updateDisp calls came in between, leaves the
\* node with the displacement values committed by the latest on_converged().
C23_RevertRestoresConverged == [][RevertRestores]_vars

\* ---- C24
\* the callers that have called request at this node
HasRequested(c) == c \in DOMAIN lastReq

\* C24: in every state, for a caller that never called request, getDisp(caller)
\* and getIdx4Element(caller) raise TypeError; for a caller that did, neither
\* raises the TypeError of a missing registration.
C24_RegistrationPrecedesQuery ==
    \A c \in Callers :
        IF HasRequested(c)
        THEN /\ GetDispOp(c, <<>>).err # "TypeError"
             /\ \A r \in GetIdx4ElementOp(c) : r.err # "TypeError"
        ELSE /\ GetDispOp(c, <<>>).err = "TypeError"
             /\ \A r \in GetIdx4ElementOp(c) : r.err = "TypeError"

\* getDisp(caller) has just raised for the one caller that has not registered
C24_Witness ==
    /\ call = "getDisp"
    /\ err = "TypeError"
    /\ HasRequested("E1")
    /\ ~HasRequested("E2")

\* ---- C25
\* the listed numbers that are positions of the element
Positions(e) == 0..(element[e].nnodes - 1)
Listed(e, ln) == Range(ln) \cap Positions(e)

\* addTransformation(T, ln) returns normally and leaves T at every position
\* for an empty list, at the listed positions and nowhere else for a
\* non-empty one
AttachedAsListed(e, T, ln) ==
    LET r == AddTransformationOp(e, T, ln)
    IN /\ r.err = "none"
       /\ \A k \in Positions(e) :
              r.transforms[k + 1] =
                  IF ln = <<>> \/ k \in Listed(e, ln) THEN T ELSE element[e].transforms[k + 1]

\* C25 as stated: in every state and for every Transformation T and list,
\* addTransformation attaches T as listed, and afterwards the element is a
\* client of T, whatever the list.
C25_AttachesAndAlwaysRegisters ==
    \A T \in Transformations, ln \in LocalLists :
        element["E2"].exists =>
            /\ AttachedAsListed("E2", T, ln)
            /\ "E2" \in AddTransformationOp("E2", T, ln).clients[T]

\* C25 amended: addTransformation attaches T as listed; the element becomes a
\* client of T when the list is empty or names a position in 0..N-1, and a
\* list naming no such position changes neither the transformations nor the
\* clients.
C25_AttachesAndRegistersWhenAttached ==
    \A T \in Transformations, ln \in LocalLists :
        element["E2"].exists =>
            /\ AttachedAsListed("E2", T, ln)
            /\ IF ln = <<>> \/ Listed("E2", ln) # {}
               THEN AddTransformationOp("E2", T, ln).clients =
                        [clients EXCEPT ![T] = clients[T] \cup {"E2"}]
               ELSE AddTransformationOp("E2", T, ln).clients = clients

\* addTransformation has left one transformation at position 0, another at
\* position 2 and none at position 1, the element being a client of both
C25_Witness ==
    /\ call = "addTransformation"
    /\ err = "none"
    /\ element["E2"].transforms = <<1, None, 2>>
    /\ "E2" \in clients[1] \cap clients[2]

\* ---- C26
\* C26: in every state and for every list, addTransformation(None, list) on an
\* existing element returns normally and leaves no transformation at the
\* listed positions, or at any position when the list is empty.
C26_NoneRemovesTransformation ==
    \A ln \in LocalLists :
        element["E2"].exists =>
            LET r == AddTransformationOp("E2", None, ln)
            IN /\ r.err = "none"
               /\ \A k \in Positions("E2") :
                      (ln = <<>> \/ k \in Listed("E2", ln)) => r.transforms[k + 1] = None

\* ---- C27
\* a getStiffness() on the initialized concrete element hands back a result
\* and leaves the stored blocks as they were
StiffnessQueryIsPure ==
    (call' = "getStiffness" /\ element["E2"].Kt # <<>>) =>
        /\ err' = "none"
        /\ element'["E2"].Kt = element["E2"].Kt

\* C27: every getStiffness() on an initialized element whose class provides
\* updateState, whatever transformations were attached before, returns a
\* result and leaves Kt untouched, so that a second call meets the same Kt and
\* returns an equal result.
C27_GetStiffnessLeavesKt == [][StiffnessQueryIsPure]_vars

\* ---- C28
\* el holds one zero vector of length D per node and N rows of N zero blocks
\* of D rows and D columns, N its node count and D the length of its code list
ZeroShaped(el) ==
    LET N == el.nnodes
        D == Len(el._dof_list)
    IN /\ Len(el.Forces) = N
       /\ \A k \in 1..N : Len(el.Forces[k]) = D /\ \A i \in 1..D : el.Forces[k][i] = 0
       /\ Len(el.Kt) = N
       /\ \A m \in 1..N :
              /\ Len(el.Kt[m]) = N
              /\ \A k \in 1..N :
                     /\ Len(el.Kt[m][k]) = D
                     /\ \A r \in 1..D :
                            /\ Len(el.Kt[m][k][r]) = D
                            /\ \A c \in 1..D : el.Kt[m][k][r][c] = 0

\* C28: in every state, reset_matrices() on the element gives it zero force
\* vectors and zero stiffness blocks sized by its node count and by the codes
\* it currently requests, whatever values they held before; and the element is
\* in that shape whenever reset_matrices or a successful initialize has just
\* run.
C28_ResetMatricesZeroes ==
    element["E2"].exists =>
        /\ ZeroShaped(ResetMatrices(element["E2"]))
        /\ (call = "reset_matrices" \/ (call = "initialize" /\ err = "none")) =>
               ZeroShaped(element["E2"])

\* initialize has just succeeded again, with the same two codes, on the 3-node
\* element
C28_Witness ==
    /\ call = "initialize"
    /\ err = "none"
    /\ again = "E2"
    /\ element["E2"].nnodes = 3
    /\ element["E2"]._dof_list = <<"ux", "uy">>
    /\ element["E2"].Kt[3][3] = <<<<0, 0>>, <<0, 0>>>>
    /\ element["E2"].Forces[3] = <<0, 0>>

\* ---- C29
\* C29: in every state, for every element in self.dof_maps, the remembered
\* list has one index per code of the element's getDofs(), each smaller than
\* ndofs and equal to the index the node holds for that code now.
C29_RememberedIndicesStayValid ==
    \A e \in DOMAIN dof_maps :
        LET idx == dof_maps[e]
            dl == element[e]._dof_list
        IN /\ Len(idx) = Len(dl)
           /\ \A k \in 1..Len(dl) :
                  /\ idx[k] < ndofs
                  /\ dl[k] \in DOMAIN dofs
                  /\ idx[k] = dofs[dl[k]]

\* E1 has re-registered with another code list after E2 registered a further
\* code
C29_Witness ==
    /\ call = "initialize"
    /\ "E1" \in DOMAIN dof_maps /\ "E2" \in DOMAIN dof_maps
    /\ element["E1"]._dof_list = <<"uy">>
    /\ dof_maps["E1"] = <<1>>
    /\ dof_maps["E2"] = <<1, 0>>

\* ---- C30
\* getLoad() has one entry per DOF index: the stored load of the code holding
\* that index, zero when none is stored; loads of other codes appear nowhere
DenseOverRegistered ==
    /\ Len(GetLoadOp(FALSE)) = ndofs
    /\ \A i \in 1..ndofs :
           \E c \in DOMAIN dofs :
               /\ dofs[c] = i - 1
               /\ GetLoadOp(FALSE)[i] = (IF c \in DOMAIN loads THEN loads[c] ELSE 0)

\* addLoad / setLoad never raise and keep every code handed in, registered or
\* not
StoredWhateverTheCode ==
    \A p \in LoadPairs :
        /\ Range(p[2]) \subseteq DOMAIN AddLoadOp(p[1], p[2]).loads
        /\ Range(p[2]) \subseteq DOMAIN SetLoadOp(p[1], p[2]).loads
        /\ \A c \in Range(p[2]) \ DOMAIN dofs : SetLoadOp(p[1], p[2]).loads[c] = LastFor(c, p[1], p[2])

LoadCallsReturn == call' \in {"addLoad", "setLoad"} => err' = "none"

\* a request leaves the stored loads alone, and the load of each code it
\* registers shows at that code's index from then on
RegistrationRevealsLoad ==
    call' = "request" =>
        /\ loads' = loads
        /\ \A c \in DOMAIN dofs' : GetLoadOp(FALSE)'[dofs'[c] + 1] = LoadOf(c)

\* C30: getLoad() always has length ndofs and holds, at each index, the stored
\* load of the code registered there, zero when it has none; addLoad / setLoad
\* for a code that is not registered return normally and keep the load, which
\* shows nowhere in getLoad() until a request registers the code, and at the
\* code's index afterwards.
C30_LoadsOfUnregisteredCodesWait ==
    [](DenseOverRegistered /\ StoredWhateverTheCode) /\
    [][LoadCallsReturn /\ RegistrationRevealsLoad]_vars

\* the first request at the node has just registered uy, for which a load of 1
\* was stored beforehand: getLoad() shows it at index 0
C30_Witness ==
    /\ call = "request"
    /\ again = NoCaller
    /\ DOMAIN dofs = {"uy"}
    /\ "uy" \in DOMAIN loads
    /\ loads["uy"] = 1
    /\ GetLoadOp(FALSE) = <<1>>

====
